---- MODULE Spec2Model ----
(***************************************************************************)
(* user_hub: identity resolution, one-time codes, token issue, rotation    *)
(* and revocation.  Every service call runs in one of the request slots of *)
(* Procs and is cut into one step per access to the relational store, the  *)
(* key-value store or the clock, so that calls interleave as goroutines    *)
(* do.  A store access may fail (the `ok` inputs): the code has a branch   *)
(* for every such failure.                                                 *)
(*                                                                         *)
(* Time is counted in units of five minutes.                               *)
(***************************************************************************)
EXTENDS Integers, FiniteSets, Sequences

VARIABLES
    now,          \* the clock
    users,        \* table users: UserID -> row
    identities,   \* table user_identities: set of rows
    profiles,     \* table user_profiles: set of rows
    nextUid,      \* next fresh uuid for a UserID
    nextIid,      \* auto_increment of user_identities.identity_id
    captcha,      \* redis captcha:<phone> -> [code, exp]
    blacklist,    \* redis blacklist:jti:<jti> -> expiry time (0: no key)
    nextJti,      \* next fresh uuid for a JTI
    issued,       \* token strings handed to clients
    proc,         \* request slots: position and locals of the running call
    loggedOut,    \* history: JTIs of valid refresh tokens Logout returned for
    revoked,      \* history: JTIs whose blacklist write by Logout succeeded
    addedUntil,   \* history: JTI -> latest (time of Add + ttl) of a successful Add
    calls,        \* number of calls the service has received
    usedCode,     \* history: phone -> code a login succeeded with, and whether that
                  \* login deleted it; cleared when a new code is stored
    endedSessions,\* history: refresh JTIs of the sessions whose access token was
                  \* given to Logout, which answered success
    last          \* history: the last call that runs in no request slot (BlackUser,
                  \* UpdateUser, DeleteUser, a direct use of the token blacklist or
                  \* of the JWT utility), its arguments and what it returned

vars == <<now, users, identities, profiles, nextUid, nextIid, captcha, blacklist,
          nextJti, issued, proc, loggedOut, revoked, addedUntil, calls, usedCode,
          endedSessions, last>>

dbVars == <<users, identities, profiles, nextIid>>
tokenHist == <<loggedOut, revoked, addedUntil, usedCode, endedSessions>>
histVars == <<tokenHist, last>>

---------------------------------------------------------------------------
(* Program constants                                                       *)

CaptchaTTL == 1
AccessTokenTTL == 3
RefreshTokenTTL == 2880

AccountPassword == 0
WechatMiniProgram == 1
Phone == 2
IdentityTypes == {AccountPassword, WechatMiniProgram, Phone}

RoleAdmin == 0
RoleUser == 1
RoleGuest == 2
StatusActive == 0
StatusBlacklisted == 1

SecretKey == "secret_key"
RefreshSecret == "refresh_secret"
Issuer == "issuer"

(* Errors the services return.  ErrSystemError is what the controllers     *)
(* test with errors.Is to answer 500; every other error is answered 400    *)
(* with its message.                                                       *)
Nil == "nil"
ErrSystemError == "ErrSystemError"
ErrServiceBusy == "ErrServiceBusy"
MsgInvalidRefreshToken == "invalid refresh token"
MsgRefreshTokenRevoked == "refresh token revoked"
MsgUserNotFoundRefresh == "user not found, cannot refresh"
MsgUserStatusRefresh == "user status abnormal, cannot refresh"
MsgPasswordMismatch == "password and confirmation differ"
MsgAccountExists == "account exists, please log in"
MsgBadCredentials == "account does not exist or password is wrong"
MsgUserDataAbnormal == "user data abnormal, contact the administrator"
MsgUserStatusLogin == "user status abnormal, cannot log in"
MsgCaptchaInvalid == "captcha wrong or expired"
MsgWechatFailed == "wechat credential check failed"
MsgBlackUserNotFound == "the user to blacklist does not exist"
MsgUpdateUserNotFound == "the user to update does not exist"

---------------------------------------------------------------------------
(* Bounds of the model                                                     *)

MaxExtra == 1
MaxCalls == 3
MaxUid == 2
MaxJti == 2 * MaxCalls

MaxTime == RefreshTokenTTL + MaxExtra
TickSteps == {1, RefreshTokenTTL}

Procs == {"p1", "p2"}
UserIDs == 1 .. MaxUid
JTIs == 1 .. MaxJti
Accounts == {"13800001111", "alice"}
Phones == {"13800001111"}
OpenIDs == {"oWx"}
Identifiers == Accounts \cup Phones \cup OpenIDs
Passwords == {"pw1", "pw2"}
Codes == {"552233", "100000"}
Platforms == {"web"}

---------------------------------------------------------------------------
(* Faulty variants of the operators below, one plausible slip each.  The   *)
(* properties are checked to fail when a variant takes the place of the    *)
(* operator it is named after.                                             *)

AddJtiToBlacklist_Lost(bl, jti, ttl) == bl
AddJtiToBlacklist_WrongKey(bl, jti, ttl) ==
    IF ttl <= 0 THEN bl ELSE [bl EXCEPT ![IF jti > 1 THEN jti - 1 ELSE jti] = now + ttl]
AddJtiToBlacklist_TtlAsInstant(bl, jti, ttl) ==
    IF ttl <= 0 THEN bl ELSE [bl EXCEPT ![jti] = ttl]
IsJtiBlacklisted_Never(jti) == FALSE
parseToken_NoExpiry(t, secret) == t.key = secret /\ t.iss = Issuer
UniqueIndexViolated_None(rows, identityType, identifier) == FALSE
Transaction_NoRollback(db, out) == out
IsActive_Any(user) == TRUE
Until_FullTTL(t) == RefreshTokenTTL
ParseRefreshToken_Lenient(t) == TRUE
parseToken_ChecksBlacklist(t, secret) ==
    t.key = secret /\ now < t.exp /\ t.iss = Issuer /\ blacklist[t.jti] <= now
CheckPassword_Any(hashedPassword, password) == TRUE
GenerateAccessToken_DefaultRole(userID, role, status, platform, jti) ==
    [key |-> SecretKey, jti |-> jti, uid |-> userID, role |-> RoleUser,
     status |-> status, platform |-> platform, iat |-> now,
     exp |-> now + AccessTokenTTL, iss |-> Issuer]

BlacklistLookup_ErrorAsAbsent(jti, ok) ==
    IF ok /\ blacklist[jti] > now THEN "yes" ELSE "no"
GetUserByID_Unscoped(userID) == [users[userID] EXCEPT !.exists = TRUE]
RepoDeleteIdentitiesByUserID_None(db, userID) == [db |-> db, err |-> FALSE]
AddJtiToBlacklist_Forever(bl, jti, ttl) ==
    IF ttl <= 0 THEN [bl EXCEPT ![jti] = RefreshTokenTTL + MaxExtra + 1]
    ELSE [bl EXCEPT ![jti] = now + ttl]
GenerateRefreshToken_AccessTTL(userID, platform, jti) ==
    [key |-> RefreshSecret, jti |-> jti, uid |-> userID, role |-> 0,
     status |-> 0, platform |-> platform, iat |-> now,
     exp |-> now + AccessTokenTTL, iss |-> Issuer]

---------------------------------------------------------------------------
(* Rows and tokens                                                         *)

NoUser == [exists |-> FALSE, role |-> 0, status |-> 0]
NoCode == [code |-> "", exp |-> 0]
NoUsed == [code |-> "", deleted |-> FALSE]
NoToken == [key |-> "none", jti |-> 0, uid |-> 0, role |-> 0, status |-> 0,
            platform |-> "none", iat |-> 0, exp |-> 0, iss |-> "none"]
NoLast == [op |-> "none", uid |-> 0, role |-> 0, status |-> 0, err |-> "",
           existed |-> FALSE, jti |-> 0, ttl |-> 0, gone |-> FALSE, same |-> FALSE]

(* utils.SetPassword / utils.CheckPassword: bcrypt.  A hash matches the    *)
(* password it was made from and nothing else; the empty credential of a   *)
(* phone or WeChat identity is no hash and matches nothing.                *)
SetPassword(password) == "bcrypt$" \o password
CheckPassword(hashedPassword, password) == hashedPassword = "bcrypt$" \o password

GenerateAccessToken(userID, role, status, platform, jti) ==
    [key |-> SecretKey, jti |-> jti, uid |-> userID, role |-> role,
     status |-> status, platform |-> platform, iat |-> now,
     exp |-> now + AccessTokenTTL, iss |-> Issuer]

GenerateRefreshToken(userID, platform, jti) ==
    [key |-> RefreshSecret, jti |-> jti, uid |-> userID, role |-> 0,
     status |-> 0, platform |-> platform, iat |-> now,
     exp |-> now + RefreshTokenTTL, iss |-> Issuer]

(* jwt.Parser.ParseWithClaims with WithExpirationRequired and WithIssuer:  *)
(* HMAC signature under `secret`, now before exp, iss equal to the         *)
(* configured issuer.  TRUE when claims are returned.                      *)
parseToken(t, secret) ==
    /\ t.key = secret
    /\ now < t.exp
    /\ t.iss = Issuer

ParseAccessToken(t) == parseToken(t, SecretKey)
ParseRefreshToken(t) == parseToken(t, RefreshSecret)

(* The *CustomClaims a successful parse returns: the payload of the token  *)
(* decoded field by field.                                                 *)
NoClaims == [UserID |-> 0, Role |-> 0, Status |-> 0, Platform |-> "none",
             ID |-> 0, IssuedAt |-> 0, ExpiresAt |-> 0, Issuer |-> "none"]
Claims(t) == [UserID |-> t.uid, Role |-> t.role, Status |-> t.status,
              Platform |-> t.platform, ID |-> t.jti, IssuedAt |-> t.iat,
              ExpiresAt |-> t.exp, Issuer |-> t.iss]

(* What a client can present: a token it was given, or one of those with   *)
(* the signature of another key or the issuer of another service.          *)
Tampered(t) == {[t EXCEPT !.key = "other_key"], [t EXCEPT !.iss = "other_issuer"]}
Presentable == issued \cup UNION {Tampered(t) : t \in {i \in issued : i.key = RefreshSecret}}

---------------------------------------------------------------------------
(* Redis repositories                                                      *)

(* time.Until(t): the time left before t; zero or less once t has come. *)
Until(t) == t - now

(* SET key value EX ttl: the key lives until now + ttl. *)
AddJtiToBlacklist(bl, jti, ttl) ==
    IF ttl <= 0 THEN bl ELSE [bl EXCEPT ![jti] = now + ttl]

(* EXISTS key: a key past its expiry is gone. *)
IsJtiBlacklisted(jti) == blacklist[jti] > now

(* isBlacklisted, err := IsJtiBlacklisted(ctx, jti) as RefreshToken reads  *)
(* it: the error of the store first, then the answer.                      *)
BlacklistLookup(jti, ok) ==
    IF ~ok THEN "error" ELSE IF IsJtiBlacklisted(jti) THEN "yes" ELSE "no"

SetCaptcha(cp, phone, code, expire) == [cp EXCEPT ![phone] = [code |-> code, exp |-> now + expire]]

(* GET key: the stored code, or "" for redis.Nil (ErrRepoNotFound). *)
GetCaptcha(phone) == IF captcha[phone].exp > now THEN captcha[phone].code ELSE ""

DeleteCaptcha(cp, phone) == [cp EXCEPT ![phone] = NoCode]

---------------------------------------------------------------------------
(* MySQL repositories.  db is the record of the four table variables.      *)

DB == [users |-> users, identities |-> identities, profiles |-> profiles, nextIid |-> nextIid]

GetUserByID(userID) == users[userID]

(* SELECT user_id, credential FROM user_identities WHERE identity_type = ? *)
(* AND identifier = ?: the set of matching rows (First takes one).         *)
GetIdentityByTypeAndIdentifier(identityType, identifier) ==
    {r \in identities : r.type = identityType /\ r.identifier = identifier}

(* uniqueIndex:idx_type_identifier is declared on column identifier only.  *)
UniqueIndexViolated(rows, identityType, identifier) ==
    \E r \in rows : r.identifier = identifier

(* if user.Status != enums.StatusActive { return error } *)
IsActive(user) == user.status = StatusActive

(* The three inserts; each yields [db, err]. *)
RepoCreateUser(db, userID, role, status) ==
    [db |-> [db EXCEPT !.users[userID] = [exists |-> TRUE, role |-> role, status |-> status]],
     err |-> FALSE]

RepoCreateIdentity(db, userID, identityType, identifier, credential) ==
    IF UniqueIndexViolated(db.identities, identityType, identifier)
    THEN [db |-> db, err |-> TRUE]
    ELSE [db |-> [db EXCEPT !.identities = @ \cup {[id |-> db.nextIid, uid |-> userID,
                                                    type |-> identityType,
                                                    identifier |-> identifier,
                                                    cred |-> credential]},
                            !.nextIid = @ + 1],
          err |-> FALSE]

RepoCreateProfile(db, userID, nickname) ==
    [db |-> [db EXCEPT !.profiles = @ \cup {[uid |-> userID, nickname |-> nickname]}],
     err |-> FALSE]

(* The body of the registration transaction: CreateUser, CreateIdentity,   *)
(* CreateProfile, stopping at the first error.  failAt names the insert    *)
(* the store fails (0: none).                                              *)
RegisterBody(db, userID, identityType, identifier, credential, nickname, failAt) ==
    LET s1 == IF failAt = 1 THEN [db |-> db, err |-> TRUE]
              ELSE RepoCreateUser(db, userID, RoleUser, StatusActive)
        s2 == IF s1.err THEN s1
              ELSE IF failAt = 2 THEN [db |-> s1.db, err |-> TRUE]
              ELSE RepoCreateIdentity(s1.db, userID, identityType, identifier, credential)
        s3 == IF s2.err THEN s2
              ELSE IF failAt = 3 THEN [db |-> s2.db, err |-> TRUE]
              ELSE RepoCreateProfile(s2.db, userID, nickname)
    IN s3

(* gorm DB.Transaction: commit what the body did, or roll all of it back.  *)
Transaction(db, out) == IF out.err THEN [db |-> db, err |-> TRUE] ELSE out

SetDB(db) ==
    /\ users' = db.users
    /\ identities' = db.identities
    /\ profiles' = db.profiles
    /\ nextIid' = db.nextIid

---------------------------------------------------------------------------
(* Request slots                                                           *)

Idle == [op |-> "none", pc |-> "idle", tok |-> NoToken, ident |-> "", code |-> "",
         plat |-> "none", uid |-> 0, role |-> 0, status |-> 0,
         err |-> "", at |-> NoToken, rt |-> NoToken,
         \* history of the call, for the properties
         validAtParse |-> FALSE, afterLogout |-> FALSE, afterRevoked |-> FALSE,
         blAtCheck |-> FALSE, sawWritten |-> FALSE, expiredAtCheck |-> FALSE,
         statusRead |-> StatusActive,
         wroteOk |-> FALSE, oldBlAtReturn |-> FALSE,
         tx |-> "none", newUid |-> 0, resubmit |-> FALSE, afterConsumed |-> FALSE,
         deleted |-> FALSE, reissued |-> FALSE,
         expiredAtParse |-> FALSE, forged |-> FALSE, validAccess |-> FALSE,
         blAtParse |-> FALSE, afterSessionLogout |-> FALSE,
         writeFailed |-> FALSE, ttlWritten |-> 0,
         lookupOk |-> FALSE, found |-> FALSE, matched |-> FALSE,
         userMissing |-> FALSE, roleRead |-> 0,
         atClaims |-> NoClaims, rtClaims |-> NoClaims, crossParsed |-> FALSE,
         verified |-> FALSE, second |-> FALSE, firstDeleted |-> FALSE,
         codeLeft |-> FALSE, pairTaken |-> FALSE,
         deletedAtParse |-> FALSE, deletedAtRead |-> FALSE, deletedAtReturn |-> FALSE,
         lookupFailed |-> FALSE]

Free(p) == proc[p].pc \in {"idle", "done"} /\ calls < MaxCalls

Start(op) == [Idle EXCEPT !.op = op]

(* A call returns: its locals are gone, its result and history stay. *)
Return(r) == [r EXCEPT !.pc = "done", !.code = "", !.plat = "none", !.uid = 0,
                       !.role = 0, !.status = 0]

Fail(r, e) == [Return(r) EXCEPT !.err = e, !.tok = NoToken]

(* Faulty variant: the error of the blacklist write ends the call. *)
OnAddJtiError_Propagated(r, failed) == IF failed THEN Fail(r, ErrSystemError) ELSE r

(* if err := AddJtiToBlacklist(...); err != nil { logger.Error(...) }: the  *)
(* error is logged and the call goes on to return what it was returning.   *)
OnAddJtiError(r, failed) == r

(* History of a phone call r, taken when it returns.  CodeLeft: the code   *)
(* it was verified with is still stored and no new one was stored since.   *)
(* Second: a call has succeeded with that same stored code before.         *)
CodeLeft(r) == r.op = "phone" /\ r.verified /\ ~r.reissued /\ GetCaptcha(r.ident) = r.code
Second(r) == r.op = "phone" /\ ~r.reissued /\ usedCode[r.ident].code = r.code

Init ==
    /\ now = 0
    /\ users = [u \in UserIDs |-> NoUser]
    /\ identities = {}
    /\ profiles = {}
    /\ nextUid = 1
    /\ nextIid = 1
    /\ captcha = [ph \in Phones |-> NoCode]
    /\ blacklist = [j \in JTIs |-> 0]
    /\ nextJti = 1
    /\ issued = {}
    /\ proc = [p \in Procs |-> Idle]
    /\ loggedOut = {}
    /\ revoked = {}
    /\ addedUntil = [j \in JTIs |-> 0]
    /\ calls = 0
    /\ usedCode = [ph \in Phones |-> NoUsed]
    /\ endedSessions = {}
    /\ last = NoLast

Max(a, b) == IF a >= b THEN a ELSE b

(* The last lines of every login: both tokens are generated and returned.  *)
(* uuid.New() gives each its JTI.                                          *)
IssueTokens(r, userID, role, status, platform) ==
    [Return(r) EXCEPT !.err = Nil,
              !.at = GenerateAccessToken(userID, role, status, platform, nextJti),
              !.rt = GenerateRefreshToken(userID, platform, nextJti + 1)]

HandOut(r) ==
    /\ nextJti' = nextJti + 2
    /\ issued' = issued \cup {r.at, r.rt}

---------------------------------------------------------------------------
(* authTokenService.RefreshToken                                           *)

\* 1. ParseRefreshToken
RefreshParse(p, t) ==
    /\ Free(p)
    /\ calls' = calls + 1
    /\ t \in Presentable
    /\ LET r == [Start("refresh") EXCEPT
                    !.tok = t,
                    !.validAtParse = (t.key = RefreshSecret /\ t.iss = Issuer /\ now < t.exp),
                    !.expiredAtParse = (now >= t.exp),
                    !.forged = (t.key # RefreshSecret \/ t.iss # Issuer),
                    !.blAtParse = (blacklist[t.jti] > now),
                    !.afterLogout = (t.jti \in loggedOut),
                    !.afterRevoked = (t.jti \in revoked),
                    !.afterSessionLogout = (t \in issued /\ t.jti \in endedSessions),
                    !.deletedAtParse = ~users[t.uid].exists]
       IN proc' = [proc EXCEPT ![p] = IF ParseRefreshToken(t)
                                      THEN [r EXCEPT !.pc = "rt_check"]
                                      ELSE Fail(r, MsgInvalidRefreshToken)]
    /\ UNCHANGED <<now, dbVars, nextUid, captcha, blacklist, nextJti, issued, histVars>>

\* 2. IsJtiBlacklisted
RefreshCheck(p, ok) ==
    /\ proc[p].pc = "rt_check"
    /\ LET r == [proc[p] EXCEPT !.blAtCheck = (blacklist[proc[p].tok.jti] > now),
                                !.sawWritten = (addedUntil[proc[p].tok.jti] > 0),
                                !.expiredAtCheck = (now >= proc[p].tok.exp)]
           isBlacklisted == BlacklistLookup(r.tok.jti, ok)
       IN proc' = [proc EXCEPT ![p] =
                     IF isBlacklisted = "error"
                     THEN [Fail(r, ErrSystemError) EXCEPT !.lookupFailed = ~ok]
                     ELSE IF isBlacklisted = "yes" THEN Fail(r, MsgRefreshTokenRevoked)
                     ELSE [r EXCEPT !.pc = "rt_user", !.lookupFailed = ~ok]]
    /\ UNCHANGED <<calls, now, dbVars, nextUid, captcha, blacklist, nextJti, issued, histVars>>

\* 3, 4. GetUserByID and the status gate
RefreshUser(p, ok) ==
    /\ proc[p].pc = "rt_user"
    /\ LET user == GetUserByID(proc[p].tok.uid)
           r == [proc[p] EXCEPT !.statusRead = user.status, !.roleRead = user.role,
                                !.deletedAtRead = ~users[proc[p].tok.uid].exists]
       IN proc' = [proc EXCEPT ![p] =
                     IF ~ok THEN Fail(proc[p], ErrSystemError)
                     ELSE IF ~user.exists
                          THEN [Fail(proc[p], MsgUserNotFoundRefresh) EXCEPT
                                   !.deletedAtRead = ~users[proc[p].tok.uid].exists]
                     ELSE IF ~IsActive(user) THEN Fail(r, MsgUserStatusRefresh)
                     ELSE [r EXCEPT !.pc = "rt_issue", !.uid = r.tok.uid,
                                    !.role = user.role, !.status = user.status]]
    /\ UNCHANGED <<calls, now, dbVars, nextUid, captcha, blacklist, nextJti, issued, histVars>>

\* 5, 6, 7. new pair, then the old JTI is blacklisted for its remaining life
RefreshIssue(p, ok) ==
    /\ proc[p].pc = "rt_issue"
    /\ LET old == proc[p].tok
           oldTokenTTL == Until(old.exp)
           wrote == oldTokenTTL > 0 /\ ok
           r == IssueTokens(proc[p], proc[p].uid, proc[p].role, proc[p].status, old.platform)
       IN /\ blacklist' = IF wrote THEN AddJtiToBlacklist(blacklist, old.jti, oldTokenTTL)
                                   ELSE blacklist
          /\ addedUntil' = IF wrote THEN [addedUntil EXCEPT ![old.jti] = Max(@, now + oldTokenTTL)]
                                    ELSE addedUntil
          /\ proc' = [proc EXCEPT ![p] =
                        [OnAddJtiError(r, oldTokenTTL > 0 /\ ~ok) EXCEPT
                            !.wroteOk = wrote,
                            !.writeFailed = (old.exp - now > 0 /\ ~ok),
                            !.ttlWritten = IF wrote THEN oldTokenTTL ELSE 0,
                            !.oldBlAtReturn = (blacklist'[old.jti] > now),
                            !.deletedAtReturn = ~users[old.uid].exists]]
          /\ HandOut(r)
    /\ UNCHANGED <<calls, now, dbVars, nextUid, captcha, loggedOut, revoked, usedCode,
                   endedSessions, last>>

---------------------------------------------------------------------------
(* authTokenService.Logout                                                 *)

\* 1. ParseRefreshToken; a token that does not parse is "logged out" at once
LogoutParse(p, t) ==
    /\ Free(p)
    /\ calls' = calls + 1
    /\ t \in Presentable
    /\ LET validAccess == t \in issued /\ t.key = SecretKey /\ t.iss = Issuer /\ now < t.exp
           r == [Start("logout") EXCEPT
                    !.tok = t,
                    !.validAtParse = (t.key = RefreshSecret /\ t.iss = Issuer /\ now < t.exp),
                    !.expiredAtParse = (now >= t.exp),
                    !.forged = (t.key # RefreshSecret \/ t.iss # Issuer),
                    !.blAtParse = (blacklist[t.jti] > now),
                    !.validAccess = validAccess]
       IN /\ proc' = [proc EXCEPT ![p] =
                        IF ParseRefreshToken(t)
                        THEN [r EXCEPT !.pc = "lo_revoke"]
                        ELSE [Fail(r, Nil) EXCEPT !.oldBlAtReturn = (blacklist[t.jti] > now)]]
          /\ endedSessions' = IF ~ParseRefreshToken(t) /\ validAccess
                              THEN endedSessions \cup {t.jti + 1} ELSE endedSessions
    /\ UNCHANGED <<now, dbVars, nextUid, captcha, blacklist, nextJti, issued,
                   loggedOut, revoked, addedUntil, usedCode, last>>

\* 2, 3. time.Until(ExpiresAt), AddJtiToBlacklist when it is positive
LogoutRevoke(p, ok) ==
    /\ proc[p].pc = "lo_revoke"
    /\ LET t == proc[p].tok
           ttl == Until(t.exp)
           wrote == ttl > 0 /\ ok
       IN /\ blacklist' = IF wrote THEN AddJtiToBlacklist(blacklist, t.jti, ttl) ELSE blacklist
          /\ addedUntil' = IF wrote THEN [addedUntil EXCEPT ![t.jti] = Max(@, now + ttl)]
                                    ELSE addedUntil
          /\ revoked' = IF wrote THEN revoked \cup {t.jti} ELSE revoked
          /\ loggedOut' = loggedOut \cup {t.jti}
          /\ proc' = [proc EXCEPT ![p] =
                        [OnAddJtiError(Fail(proc[p], Nil), ttl > 0 /\ ~ok) EXCEPT
                            !.wroteOk = wrote,
                            !.writeFailed = (t.exp - now > 0 /\ ~ok),
                            !.ttlWritten = IF wrote THEN ttl ELSE 0,
                            !.oldBlAtReturn = (blacklist'[t.jti] > now)]]
    /\ UNCHANGED <<calls, now, dbVars, nextUid, captcha, nextJti, issued, usedCode,
                   endedSessions, last>>

---------------------------------------------------------------------------
(* The end of every login: GetUserByID, the status gate, the tokens.       *)
(* notFound and sysErr are the errors the entry point returns when the     *)
(* user row is missing and when the read fails.                            *)
UserGate(p, from, ok, notFound, sysErr) ==
    /\ proc[p].pc = from
    /\ LET user == GetUserByID(proc[p].uid)
           r == [proc[p] EXCEPT !.statusRead = user.status, !.roleRead = user.role]
           fails == ~ok \/ ~user.exists \/ ~IsActive(user)
           left == CodeLeft(proc[p])
       IN /\ proc' = [proc EXCEPT ![p] =
                        IF ~ok THEN [Fail(proc[p], sysErr) EXCEPT !.codeLeft = left]
                        ELSE IF ~user.exists
                             THEN [Fail(proc[p], notFound) EXCEPT !.userMissing = TRUE,
                                                                  !.codeLeft = left]
                        ELSE IF ~IsActive(user)
                             THEN [Fail(r, MsgUserStatusLogin) EXCEPT !.codeLeft = left]
                        ELSE [IssueTokens(r, proc[p].uid, user.role, user.status, r.plat)
                                 EXCEPT !.second = Second(proc[p]),
                                        !.firstDeleted = (Second(proc[p])
                                                          /\ usedCode[proc[p].ident].deleted)]]
          /\ IF fails THEN UNCHANGED <<nextJti, issued>> ELSE HandOut(proc'[p])
    /\ UNCHANGED <<calls, now, dbVars, nextUid, captcha, blacklist, loggedOut, revoked,
                   addedUntil, endedSessions, last>>

(* The registration transaction of the three entry points; txErr is the    *)
(* error returned when it fails, next the step after it commits.           *)
RegisterTx(p, from, failAt, identityType, credential, nickname, txErr, next) ==
    /\ proc[p].pc = from
    /\ LET out == Transaction(DB, RegisterBody(DB, proc[p].newUid, identityType,
                                               proc[p].ident, credential, nickname, failAt))
       IN /\ SetDB(out.db)
          /\ proc' = [proc EXCEPT ![p] =
                        IF out.err
                        THEN [Fail(proc[p], txErr) EXCEPT
                                 !.tx = IF failAt = 0 THEN "conflict" ELSE "failed",
                                 !.codeLeft = CodeLeft(proc[p]),
                                 !.pairTaken = (\E x \in identities :
                                                   /\ x.type = identityType
                                                   /\ x.identifier = proc[p].ident)]
                        ELSE IF next = "done"
                             THEN [Fail(proc[p], Nil) EXCEPT !.tx = "committed"]
                             ELSE [proc[p] EXCEPT !.pc = next, !.tx = "committed",
                                                  !.uid = proc[p].newUid]]
    /\ UNCHANGED <<calls, now, nextUid, captcha, blacklist, nextJti, issued, histVars>>

---------------------------------------------------------------------------
(* accountService.Register                                                 *)

\* 1, 2, 3. the passwords agree, the account is not taken, a new UserID
RegisterCheck(p, account, password, confirm, ok) ==
    /\ Free(p)
    /\ calls' = calls + 1
    /\ LET r == [Start("register") EXCEPT !.ident = account, !.code = password]
           found == GetIdentityByTypeAndIdentifier(AccountPassword, account) # {}
           goes == password = confirm /\ ok /\ ~found
       IN /\ goes => nextUid <= MaxUid
          /\ proc' = [proc EXCEPT ![p] =
                        IF password # confirm THEN Fail(r, MsgPasswordMismatch)
                        ELSE IF ~ok THEN Fail(r, ErrSystemError)
                        ELSE IF found THEN Fail(r, MsgAccountExists)
                        ELSE [r EXCEPT !.pc = "reg_tx", !.newUid = nextUid]]
          /\ nextUid' = IF goes THEN nextUid + 1 ELSE nextUid
    /\ UNCHANGED <<now, dbVars, captcha, blacklist, nextJti, issued, histVars>>

\* 4, 5. the transaction
RegisterCommit(p, failAt) ==
    RegisterTx(p, "reg_tx", failAt, AccountPassword, SetPassword(proc[p].code),
               proc[p].ident, ErrSystemError, "done")

---------------------------------------------------------------------------
(* accountService.Login                                                    *)

\* 1, 2. the identity of the account, the password
LoginIdentity(p, account, password, platform, ok) ==
    /\ Free(p)
    /\ calls' = calls + 1
    /\ LET rows == GetIdentityByTypeAndIdentifier(AccountPassword, account)
           r == [Start("login") EXCEPT
                    !.ident = account, !.plat = platform, !.lookupOk = ok,
                    !.found = (\E x \in identities : x.type = AccountPassword
                                                     /\ x.identifier = account),
                    !.matched = (\E x \in identities : /\ x.type = AccountPassword
                                                       /\ x.identifier = account
                                                       /\ x.cred = "bcrypt$" \o password)]
       IN proc' = [proc EXCEPT ![p] =
                     IF ~ok THEN Fail(r, ErrSystemError)
                     ELSE IF rows = {} THEN Fail(r, MsgBadCredentials)
                     ELSE LET identityCredential == CHOOSE x \in rows : TRUE
                          IN IF ~CheckPassword(identityCredential.cred, password)
                             THEN Fail(r, MsgBadCredentials)
                             ELSE [r EXCEPT !.pc = "login_user", !.uid = identityCredential.uid]]
    /\ UNCHANGED <<now, dbVars, nextUid, captcha, blacklist, nextJti, issued, histVars>>

\* 3 .. 6.
LoginUser(p, ok) ==
    /\ UserGate(p, "login_user", ok, MsgUserDataAbnormal, ErrSystemError)
    /\ UNCHANGED usedCode

---------------------------------------------------------------------------
(* phoneAuthService.LoginOrRegister                                        *)

\* 1. GetCaptcha and the comparison with the submitted code
PhoneGet(p, phone, code, platform, ok) ==
    /\ Free(p)
    /\ calls' = calls + 1
    /\ LET r == [Start("phone") EXCEPT
                    !.ident = phone, !.code = code, !.plat = platform,
                    !.resubmit = (usedCode[phone].code = code),
                    !.afterConsumed = (usedCode[phone].code = code /\ usedCode[phone].deleted)]
           storedCode == GetCaptcha(phone)
       IN proc' = [proc EXCEPT ![p] =
                     IF ~ok THEN Fail(r, ErrSystemError)
                     ELSE IF storedCode = "" THEN Fail(r, MsgCaptchaInvalid)
                     ELSE IF storedCode # code THEN Fail(r, MsgCaptchaInvalid)
                     ELSE [r EXCEPT !.pc = "ph_delete", !.verified = TRUE]]
    /\ UNCHANGED <<now, dbVars, nextUid, captcha, blacklist, nextJti, issued, histVars>>

\* 1. (end) DeleteCaptcha; its failure is logged and the login goes on
PhoneDelete(p, ok) ==
    /\ proc[p].pc = "ph_delete"
    /\ captcha' = IF ok THEN DeleteCaptcha(captcha, proc[p].ident) ELSE captcha
    /\ proc' = [proc EXCEPT ![p] = [proc[p] EXCEPT !.pc = "ph_identity", !.deleted = ok]]
    /\ UNCHANGED <<calls, now, dbVars, nextUid, blacklist, nextJti, issued, histVars>>

\* 2. the identity of the phone; 3. a new UserID when there is none
PhoneIdentity(p, ok) ==
    /\ proc[p].pc = "ph_identity"
    /\ LET rows == GetIdentityByTypeAndIdentifier(Phone, proc[p].ident)
           goes == ok /\ rows = {}
       IN /\ goes => nextUid <= MaxUid
          /\ proc' = [proc EXCEPT ![p] =
                        IF ~ok THEN [Fail(proc[p], ErrSystemError) EXCEPT
                                        !.codeLeft = CodeLeft(proc[p])]
                        ELSE IF rows = {} THEN [proc[p] EXCEPT !.pc = "ph_tx", !.newUid = nextUid]
                        ELSE [proc[p] EXCEPT !.pc = "ph_user",
                                             !.uid = (CHOOSE x \in rows : TRUE).uid]]
          /\ nextUid' = IF goes THEN nextUid + 1 ELSE nextUid
    /\ UNCHANGED <<calls, now, dbVars, captcha, blacklist, nextJti, issued, histVars>>

\* 3. the transaction
PhoneCommit(p, failAt) ==
    RegisterTx(p, "ph_tx", failAt, Phone, "", proc[p].ident, ErrSystemError, "ph_user")

\* 4 .. 7.
PhoneUser(p, ok) ==
    /\ UserGate(p, "ph_user", ok, ErrSystemError, ErrSystemError)
    /\ usedCode' = IF proc'[p].err = Nil /\ ~proc[p].reissued
                   THEN [usedCode EXCEPT ![proc[p].ident] =
                            [code |-> proc[p].code, deleted |-> proc[p].deleted]]
                   ELSE usedCode

---------------------------------------------------------------------------
(* wechatMiniProgramService.LoginOrRegister                                *)

\* 1. GetSession gives the OpenID of the code; 2. its identity; 3. a new UserID
WechatSession(p, openid, platform, sessionOk, ok) ==
    /\ Free(p)
    /\ calls' = calls + 1
    /\ LET r == [Start("wechat") EXCEPT !.ident = openid, !.plat = platform]
           rows == GetIdentityByTypeAndIdentifier(WechatMiniProgram, openid)
           goes == sessionOk /\ ok /\ rows = {}
       IN /\ goes => nextUid <= MaxUid
          /\ proc' = [proc EXCEPT ![p] =
                        IF ~sessionOk THEN Fail([r EXCEPT !.ident = ""], MsgWechatFailed)
                        ELSE IF ~ok THEN Fail(r, ErrServiceBusy)
                        ELSE IF rows = {} THEN [r EXCEPT !.pc = "wx_tx", !.newUid = nextUid]
                        ELSE [r EXCEPT !.pc = "wx_user", !.uid = (CHOOSE x \in rows : TRUE).uid]]
          /\ nextUid' = IF goes THEN nextUid + 1 ELSE nextUid
    /\ UNCHANGED <<now, dbVars, captcha, blacklist, nextJti, issued, histVars>>

\* 3. the transaction
WechatCommit(p, failAt) ==
    RegisterTx(p, "wx_tx", failAt, WechatMiniProgram, "", "", ErrServiceBusy, "wx_user")

\* 4 .. 7.
WechatUser(p, ok) ==
    /\ UserGate(p, "wx_user", ok, ErrSystemError, ErrServiceBusy)
    /\ UNCHANGED usedCode

---------------------------------------------------------------------------
(* Management and the captcha controller                                   *)

\* userIdentityService.CreateIdentity: one insert outside any transaction
CreateIdentity(userID, identityType, identifier, credential, ok) ==
    /\ calls < MaxCalls
    /\ calls' = calls + 1
    /\ users[userID].exists
    /\ LET cred == IF identityType = AccountPassword THEN SetPassword(credential) ELSE credential
           out == IF ok THEN RepoCreateIdentity(DB, userID, identityType, identifier, cred)
                        ELSE [db |-> DB, err |-> TRUE]
       IN SetDB(out.db)
    /\ UNCHANGED <<now, nextUid, captcha, blacklist, nextJti, issued, proc, histVars>>

\* userRepository.BlackUser: UPDATE users SET status = 1 WHERE user_id = ?
RepoBlackUser(us, userID) ==
    IF us[userID].exists THEN [us EXCEPT ![userID].status = StatusBlacklisted] ELSE us

\* userService.BlackUser; what it returns is kept by BlackUserHandler
BlackUser(userID, ok) ==
    /\ calls < MaxCalls
    /\ calls' = calls + 1
    /\ users' = IF ok THEN RepoBlackUser(users, userID) ELSE users
    /\ UNCHANGED <<now, identities, profiles, nextUid, nextIid, captcha, blacklist,
                   nextJti, issued, proc, tokenHist>>

\* The error userService.BlackUser returns: the repository returns the error
\* of the store and nothing else (its RowsAffected test is commented out), so
\* the branch for ErrRepoNotFound is never taken
BlackUserReturns(userID, ok) == IF ok THEN Nil ELSE ErrSystemError

\* UserManageController.BlackUserHandler: the service call, and its error
\* turned into the answer
BlackUserHandler(userID, ok) ==
    /\ BlackUser(userID, ok)
    /\ last' = [NoLast EXCEPT !.op = "BlackUser", !.uid = userID,
                              !.existed = users[userID].exists,
                              !.err = BlackUserReturns(userID, ok)]

\* userService.CreateUser: one insert into users, no identity and no profile
CreateUser(role, status, ok) ==
    /\ calls < MaxCalls
    /\ calls' = calls + 1
    /\ nextUid <= MaxUid
    /\ nextUid' = nextUid + 1
    /\ LET out == IF ok THEN RepoCreateUser(DB, nextUid, role, status)
                        ELSE [db |-> DB, err |-> TRUE]
       IN SetDB(out.db)
    /\ UNCHANGED <<now, captcha, blacklist, nextJti, issued, proc, histVars>>

\* userRepository.UpdateUser: Model(&User{UserID}).Updates(user) writes the
\* fields of the entity that are not zero, to a row that is not deleted
RepoUpdateUser(us, userID, role, status) ==
    IF us[userID].exists
    THEN [us EXCEPT ![userID].role = IF role # 0 THEN role ELSE @,
                    ![userID].status = IF status # 0 THEN status ELSE @]
    ELSE us

\* userService.UpdateUser: the row is read, a role or status of the request
\* that is not zero and differs is put in, and the row is written when
\* something changed
UpdateUser(userID, role, status, ok) ==
    /\ calls < MaxCalls
    /\ calls' = calls + 1
    /\ LET userEntity == GetUserByID(userID)
           newRole == IF role # 0 /\ userEntity.role # role THEN role ELSE userEntity.role
           newStatus == IF status # 0 /\ userEntity.status # status
                        THEN status ELSE userEntity.status
           updated == newRole # userEntity.role \/ newStatus # userEntity.status
       IN /\ users' = IF userEntity.exists /\ updated /\ ok
                      THEN RepoUpdateUser(users, userID, newRole, newStatus)
                      ELSE users
          /\ last' = [NoLast EXCEPT !.op = "UpdateUser", !.uid = userID, !.role = role,
                                    !.status = status, !.existed = userEntity.exists,
                                    !.err = IF ~ok THEN ErrSystemError
                                            ELSE IF ~userEntity.exists
                                                 THEN MsgUpdateUserNotFound
                                            ELSE Nil]
    /\ UNCHANGED <<now, identities, profiles, nextUid, nextIid, captcha, blacklist,
                   nextJti, issued, proc, tokenHist>>

\* The three deletes; each yields [db, err].  users is deleted softly (the row
\* stays and no query sees it), the other two tables have no deleted_at.
RepoDeleteUser(db, userID) ==
    [db |-> [db EXCEPT !.users[userID].exists = FALSE], err |-> FALSE]

RepoDeleteIdentitiesByUserID(db, userID) ==
    [db |-> [db EXCEPT !.identities = {r \in @ : r.uid # userID}], err |-> FALSE]

RepoDeleteProfile(db, userID) ==
    [db |-> [db EXCEPT !.profiles = {r \in @ : r.uid # userID}], err |-> FALSE]

(* The body of the transaction of DeleteUser, stopping at the first error; *)
(* failAt names the delete the store fails (0: none).                      *)
DeleteBody(db, userID, failAt) ==
    LET s1 == IF failAt = 1 THEN [db |-> db, err |-> TRUE] ELSE RepoDeleteUser(db, userID)
        s2 == IF s1.err THEN s1
              ELSE IF failAt = 2 THEN [db |-> s1.db, err |-> TRUE]
              ELSE RepoDeleteIdentitiesByUserID(s1.db, userID)
        s3 == IF s2.err THEN s2
              ELSE IF failAt = 3 THEN [db |-> s2.db, err |-> TRUE]
              ELSE RepoDeleteProfile(s2.db, userID)
    IN s3

\* userService.DeleteUser
DeleteUser(userID, failAt) ==
    /\ calls < MaxCalls
    /\ calls' = calls + 1
    /\ LET out == Transaction(DB, DeleteBody(DB, userID, failAt))
       IN /\ SetDB(out.db)
          /\ last' = [NoLast EXCEPT
                         !.op = "DeleteUser", !.uid = userID,
                         !.existed = users[userID].exists,
                         !.err = IF out.err THEN ErrSystemError ELSE Nil,
                         !.gone = /\ ~users'[userID].exists
                                  /\ \A r \in identities' : r.uid # userID
                                  /\ \A r \in profiles' : r.uid # userID,
                         !.same = /\ users' = users /\ identities' = identities
                                  /\ profiles' = profiles]
    /\ UNCHANGED <<now, nextUid, captcha, blacklist, nextJti, issued, proc, tokenHist>>

\* AuthController.SendCaptcha: the SMS is sent, then the code is stored
SendCaptcha(phone, code, smsOk, ok) ==
    /\ calls < MaxCalls
    /\ calls' = calls + 1
    /\ captcha' = IF smsOk /\ ok THEN SetCaptcha(captcha, phone, code, CaptchaTTL) ELSE captcha
    /\ usedCode' = IF smsOk /\ ok THEN [usedCode EXCEPT ![phone] = NoUsed] ELSE usedCode
    /\ proc' = IF smsOk /\ ok
               THEN [q \in Procs |->
                        IF proc[q].op = "phone" /\ proc[q].ident = phone /\ proc[q].pc # "done"
                        THEN [proc[q] EXCEPT !.reissued = TRUE] ELSE proc[q]]
               ELSE proc
    /\ UNCHANGED <<now, dbVars, nextUid, blacklist, nextJti, issued, loggedOut, revoked,
                   addedUntil, endedSessions, last>>

---------------------------------------------------------------------------
(* The token blacklist and the JWT utility used on their own               *)

TTLs == {0 - 1, 0, 1, RefreshTokenTTL}
AddJtis == {1, 2}

\* tokenBlackRepo.AddJtiToBlacklist with any ttl: a ttl that is not positive
\* returns nil before the store is touched
AddJti(jti, ttl, ok) ==
    /\ calls < MaxCalls
    /\ calls' = calls + 1
    /\ LET wrote == ttl > 0 /\ ok
       IN /\ blacklist' = IF ttl > 0 /\ ~ok THEN blacklist
                          ELSE AddJtiToBlacklist(blacklist, jti, ttl)
          /\ addedUntil' = IF wrote THEN [addedUntil EXCEPT ![jti] = Max(@, now + ttl)]
                                    ELSE addedUntil
          /\ last' = [NoLast EXCEPT !.op = "AddJtiToBlacklist", !.jti = jti, !.ttl = ttl,
                                    !.err = IF ttl > 0 /\ ~ok THEN ErrSystemError ELSE Nil]
    /\ UNCHANGED <<now, dbVars, nextUid, captcha, nextJti, issued, proc, loggedOut,
                   revoked, usedCode, endedSessions>>

\* JWTUtility.GenerateAccessToken and GenerateRefreshToken for any user
JwtGenerate(p, userID, role, status, platform) ==
    /\ Free(p)
    /\ calls' = calls + 1
    /\ nextJti + 1 <= MaxJti
    /\ LET r == [Start("jwt") EXCEPT
                    !.pc = "jwt_parse", !.uid = userID, !.role = role, !.status = status,
                    !.plat = platform,
                    !.at = GenerateAccessToken(userID, role, status, platform, nextJti),
                    !.rt = GenerateRefreshToken(userID, platform, nextJti + 1)]
       IN proc' = [proc EXCEPT ![p] = r]
    /\ nextJti' = nextJti + 2
    /\ UNCHANGED <<now, dbVars, nextUid, captcha, blacklist, issued, histVars>>

\* JWTUtility.ParseAccessToken and ParseRefreshToken of what was generated
JwtParse(p) ==
    /\ proc[p].pc = "jwt_parse"
    /\ proc' = [proc EXCEPT ![p] =
                  [proc[p] EXCEPT
                      !.pc = "done", !.err = Nil,
                      !.expiredAtParse = (now >= proc[p].at.exp),
                      !.atClaims = IF ParseAccessToken(proc[p].at)
                                   THEN Claims(proc[p].at) ELSE NoClaims,
                      !.rtClaims = IF ParseRefreshToken(proc[p].rt)
                                   THEN Claims(proc[p].rt) ELSE NoClaims,
                      !.crossParsed = (ParseAccessToken(proc[p].rt)
                                       \/ ParseRefreshToken(proc[p].at))]]
    /\ UNCHANGED <<calls, now, dbVars, nextUid, captcha, blacklist, nextJti, issued, histVars>>

\* time passes, by five minutes (at most MaxExtra times in a row) or by the
\* life of a refresh token; redis drops the keys whose time has come
Tick(d) ==
    /\ now + d <= MaxTime
    /\ d < RefreshTokenTTL => now % RefreshTokenTTL < MaxExtra
    /\ now' = now + d
    /\ blacklist' = [j \in JTIs |-> IF blacklist[j] > now' THEN blacklist[j] ELSE 0]
    /\ captcha' = [ph \in Phones |-> IF captcha[ph].exp > now' THEN captcha[ph] ELSE NoCode]
    /\ UNCHANGED <<calls, dbVars, nextUid, nextJti, issued, proc, histVars>>

---------------------------------------------------------------------------
(* The entry points, by service                                            *)

TokenCalls ==
    \/ \E p \in Procs, t \in Presentable : RefreshParse(p, t)
    \/ \E p \in Procs, ok \in BOOLEAN : RefreshCheck(p, ok)
    \/ \E p \in Procs, ok \in BOOLEAN : RefreshUser(p, ok)
    \/ \E p \in Procs, ok \in BOOLEAN : RefreshIssue(p, ok)
    \/ \E p \in Procs, t \in Presentable : LogoutParse(p, t)
    \/ \E p \in Procs, ok \in BOOLEAN : LogoutRevoke(p, ok)

AccountRegisterCalls ==
    \/ \E p \in Procs, a \in Accounts, pw \in Passwords, cf \in Passwords, ok \in BOOLEAN :
          RegisterCheck(p, a, pw, cf, ok)
    \/ \E p \in Procs, failAt \in 0 .. 3 : RegisterCommit(p, failAt)

AccountLoginCalls ==
    \/ \E p \in Procs, a \in Accounts, pw \in Passwords, pl \in Platforms, ok \in BOOLEAN :
          LoginIdentity(p, a, pw, pl, ok)
    \/ \E p \in Procs, ok \in BOOLEAN : LoginUser(p, ok)

(* the steps of a phone call for a phone that has its identity *)
PhoneLoginCalls ==
    \/ \E p \in Procs, ph \in Phones, c \in Codes, pl \in Platforms, ok \in BOOLEAN :
          PhoneGet(p, ph, c, pl, ok)
    \/ \E p \in Procs, ok \in BOOLEAN : PhoneDelete(p, ok)
    \/ \E p \in Procs, ok \in BOOLEAN : PhoneIdentity(p, ok)
    \/ \E p \in Procs, ok \in BOOLEAN : PhoneUser(p, ok)

PhoneCalls ==
    \/ PhoneLoginCalls
    \/ \E p \in Procs, failAt \in 0 .. 3 : PhoneCommit(p, failAt)

(* the steps of a WeChat call for an OpenID that has its identity *)
WechatLoginCalls ==
    \/ \E p \in Procs, o \in OpenIDs, pl \in Platforms, sessionOk \in BOOLEAN, ok \in BOOLEAN :
          WechatSession(p, o, pl, sessionOk, ok)
    \/ \E p \in Procs, ok \in BOOLEAN : WechatUser(p, ok)

WechatCalls ==
    \/ WechatLoginCalls
    \/ \E p \in Procs, failAt \in 0 .. 3 : WechatCommit(p, failAt)

CreateIdentityCalls ==
    \E u \in UserIDs, ty \in IdentityTypes, i \in Identifiers, c \in Passwords, ok \in BOOLEAN :
        CreateIdentity(u, ty, i, c, ok)

(* BlackUser with its answer dropped, and with its answer kept *)
BlackUserCalls == \E u \in UserIDs, ok \in BOOLEAN : BlackUser(u, ok) /\ UNCHANGED last

BlackUserHandlerCalls == \E u \in UserIDs, ok \in BOOLEAN : BlackUserHandler(u, ok)

CreateUserCalls ==
    \E role \in {RoleAdmin, RoleUser, RoleGuest}, status \in {StatusActive, StatusBlacklisted},
       ok \in BOOLEAN : CreateUser(role, status, ok)

UpdateUserCalls ==
    \E u \in UserIDs, role \in {RoleAdmin, RoleUser, RoleGuest},
       status \in {StatusActive, StatusBlacklisted}, ok \in BOOLEAN :
        UpdateUser(u, role, status, ok)

DeleteUserCalls == \E u \in UserIDs, failAt \in 0 .. 3 : DeleteUser(u, failAt)

SendCaptchaCalls ==
    \E ph \in Phones, c \in Codes, smsOk \in BOOLEAN, ok \in BOOLEAN : SendCaptcha(ph, c, smsOk, ok)

AddJtiCalls == \E j \in AddJtis, ttl \in TTLs, ok \in BOOLEAN : AddJti(j, ttl, ok)

(* the utility keeps no state between calls: one request slot shows all *)
JwtProcs == {"p1"}

JwtCalls ==
    \/ \E p \in JwtProcs, u \in UserIDs, role \in {RoleAdmin, RoleUser, RoleGuest},
          status \in {StatusActive, StatusBlacklisted}, pl \in Platforms :
          JwtGenerate(p, u, role, status, pl)
    \/ \E p \in JwtProcs : JwtParse(p)

Clock == \E d \in TickSteps : Tick(d)

(* The whole service. *)
Next ==
    \/ TokenCalls
    \/ AccountRegisterCalls
    \/ AccountLoginCalls
    \/ PhoneCalls
    \/ WechatCalls
    \/ CreateIdentityCalls
    \/ BlackUserCalls
    \/ BlackUserHandlerCalls
    \/ CreateUserCalls
    \/ UpdateUserCalls
    \/ DeleteUserCalls
    \/ SendCaptchaCalls
    \/ AddJtiCalls
    \/ JwtCalls
    \/ Clock

Spec == Init /\ [][Next]_vars

(* The service after "alice" has registered and the management API has     *)
(* given the user a phone and a WeChat identity.                           *)
InitRegistered ==
    /\ now = 0
    /\ users = [u \in UserIDs |-> IF u = 1 THEN [exists |-> TRUE, role |-> RoleUser,
                                                  status |-> StatusActive] ELSE NoUser]
    /\ identities = {[id |-> 1, uid |-> 1, type |-> AccountPassword, identifier |-> "alice",
                      cred |-> SetPassword("pw1")],
                     [id |-> 2, uid |-> 1, type |-> Phone, identifier |-> "13800001111",
                      cred |-> ""],
                     [id |-> 3, uid |-> 1, type |-> WechatMiniProgram, identifier |-> "oWx",
                      cred |-> ""]}
    /\ profiles = {[uid |-> 1, nickname |-> "alice"]}
    /\ nextUid = 2
    /\ nextIid = 4
    /\ captcha = [ph \in Phones |-> NoCode]
    /\ blacklist = [j \in JTIs |-> 0]
    /\ nextJti = 1
    /\ issued = {}
    /\ proc = [p \in Procs |-> Idle]
    /\ loggedOut = {}
    /\ revoked = {}
    /\ addedUntil = [j \in JTIs |-> 0]
    /\ calls = 0
    /\ usedCode = [ph \in Phones |-> NoUsed]
    /\ endedSessions = {}
    /\ last = NoLast

(* Token life: login, rotation, logout, blacklisting of the user, time. *)
NextToken ==
    \/ AccountLoginCalls
    \/ TokenCalls
    \/ BlackUserCalls
    \/ Clock

SpecToken == InitRegistered /\ [][NextToken]_vars

(* Registration by the three entry points and by the management API; no   *)
(* code expires here.                                                      *)
NextRegister ==
    \/ AccountRegisterCalls
    \/ PhoneCalls
    \/ WechatCalls
    \/ CreateIdentityCalls
    \/ SendCaptchaCalls

SpecRegister == Init /\ [][NextRegister]_vars

(* Every way in for a registered user, and the blacklisting of the user;   *)
(* the gate does not look at the clock, and no code or token expires here. *)
NextGate ==
    \/ AccountLoginCalls
    \/ PhoneLoginCalls
    \/ WechatLoginCalls
    \/ SendCaptchaCalls
    \/ TokenCalls
    \/ BlackUserCalls

SpecGate == InitRegistered /\ [][NextGate]_vars

(* Token life with the management API changing the role and the status. *)
NextRole ==
    \/ AccountLoginCalls
    \/ TokenCalls
    \/ UpdateUserCalls
    \/ BlackUserHandlerCalls

SpecRole == InitRegistered /\ [][NextRole]_vars

(* Users made and deleted by the management API while the entry points    *)
(* register and log in.                                                    *)
NextManage ==
    \/ AccountRegisterCalls
    \/ AccountLoginCalls
    \/ PhoneCalls
    \/ WechatCalls
    \/ SendCaptchaCalls
    \/ CreateUserCalls
    \/ DeleteUserCalls

SpecManage == InitRegistered /\ [][NextManage]_vars

(* The one-time code: issue, use, expiry. *)
NextPhone ==
    \/ SendCaptchaCalls
    \/ PhoneCalls
    \/ Clock

SpecPhone == Init /\ [][NextPhone]_vars

(* Token life while the management API deletes and blacklists users. *)
NextDelete ==
    \/ AccountLoginCalls
    \/ TokenCalls
    \/ DeleteUserCalls
    \/ BlackUserHandlerCalls

SpecDelete == InitRegistered /\ [][NextDelete]_vars

(* The token blacklist on its own: writes with any ttl, and time. *)
NextBlacklist ==
    \/ AddJtiCalls
    \/ Clock

SpecBlacklist == Init /\ [][NextBlacklist]_vars

(* The JWT utility on its own: tokens for any user, parsed at any time. *)
NextJwt ==
    \/ JwtCalls
    \/ Clock

SpecJwt == Init /\ [][NextJwt]_vars

---------------------------------------------------------------------------
(* Properties                                                              *)

Rotated(p) == proc[p].op = "refresh" /\ proc[p].pc = "done" /\ proc[p].err = Nil
RefreshEnded(p) == proc[p].op = "refresh" /\ proc[p].pc = "done"
NoTokens(p) == proc[p].at = NoToken /\ proc[p].rt = NoToken
IdentityRowsOf(u) == {r \in identities : r.uid = u}
ProfileRowsOf(u) == {r \in profiles : r.uid = u}
NoRowsOf(u) == ~users[u].exists /\ IdentityRowsOf(u) = {} /\ ProfileRowsOf(u) = {}

(* C1, as amended.  A RefreshToken call that returns a pair returns an     *)
(* access token and a refresh token whose JTIs differ from each other and  *)
(* from the JTI of the token presented, and the old JTI is in the          *)
(* blacklist when the call returns provided the blacklist write was made   *)
(* (the old token still had life left) and the store accepted it.  A call  *)
(* that ends with a business error had a reason: the token did not parse,  *)
(* its JTI was blacklisted, or the status read was not Active.             *)
C1_RotationBlacklistsOld ==
    \A p \in Procs :
        /\ Rotated(p) =>
              /\ proc[p].at.key = SecretKey /\ proc[p].rt.key = RefreshSecret
              /\ proc[p].at.jti # proc[p].tok.jti
              /\ proc[p].rt.jti # proc[p].tok.jti
              /\ proc[p].at.jti # proc[p].rt.jti
              /\ proc[p].wroteOk => proc[p].oldBlAtReturn
        /\ RefreshEnded(p) =>
              /\ proc[p].err = MsgInvalidRefreshToken => ~proc[p].validAtParse
              /\ proc[p].err = MsgRefreshTokenRevoked => proc[p].blAtCheck
              /\ proc[p].err = MsgUserStatusRefresh => proc[p].statusRead # StatusActive

C1_Witness ==
    \E p \in Procs : Rotated(p) /\ proc[p].wroteOk /\ proc[p].oldBlAtReturn

(* C1 as stated: when RefreshToken has returned a pair, the old JTI is in  *)
(* the blacklist.                                                          *)
C1_AsStated ==
    \A p \in Procs : Rotated(p) => proc[p].oldBlAtReturn

(* C2, as amended.  After a Logout whose blacklist write succeeded, a      *)
(* RefreshToken call that presents the same token and reaches the          *)
(* blacklist check before the token's expiry returns no tokens: it ends    *)
(* with the error of a revoked token, or of an unparsable one once the     *)
(* token has expired, or with the system error when a store fails.         *)
C2_RevokedTokenCannotRotate ==
    \A p \in Procs :
        (RefreshEnded(p) /\ proc[p].afterRevoked /\ ~proc[p].expiredAtCheck) =>
            /\ proc[p].err \in {MsgRefreshTokenRevoked, MsgInvalidRefreshToken, ErrSystemError}
            /\ proc[p].err = MsgInvalidRefreshToken => ~proc[p].validAtParse
            /\ NoTokens(p)

C2_Witness ==
    \E p \in Procs : /\ RefreshEnded(p) /\ proc[p].afterRevoked /\ proc[p].validAtParse
                     /\ proc[p].blAtCheck /\ proc[p].err = MsgRefreshTokenRevoked

(* C2 as stated: after Logout has returned for a valid token, every later  *)
(* RefreshToken call with that token fails.                                *)
C2_AsStated ==
    \A p \in Procs : (RefreshEnded(p) /\ proc[p].afterLogout) => proc[p].err # Nil

(* C3.  In every reachable state at most one row of user_identities has a  *)
(* given (IdentityType, Identifier).                                       *)
C3_UniquePair ==
    \A r1 \in identities, r2 \in identities :
        (r1.type = r2.type /\ r1.identifier = r2.identifier) => r1 = r2

C3_Witness ==
    \E p \in Procs, q \in Procs :
        /\ p # q /\ proc[p].op = proc[q].op /\ proc[p].ident = proc[q].ident
        /\ proc[p].tx = "committed" /\ proc[q].tx = "conflict"
        /\ Cardinality({r \in identities : r.identifier = proc[p].ident}) = 1

(* C4 as stated: of two concurrent first registrations of one pair (both   *)
(* found no identity, one committed, the other's transaction hit the       *)
(* unique index) the loser is told that the identity exists already, a     *)
(* business error.                                                         *)
C4_AsStated ==
    \A p \in Procs, q \in Procs :
        ( /\ p # q /\ proc[p].op = proc[q].op /\ proc[p].ident = proc[q].ident
          /\ proc[p].tx = "committed" /\ proc[q].tx = "conflict" /\ proc[q].pc = "done" )
        => proc[q].err \notin {Nil, ErrSystemError, ErrServiceBusy}

C6_StatusGate ==
    \A p \in Procs :
        proc[p].pc = "done" =>
            /\ (proc[p].err = Nil /\ proc[p].op \in {"login", "phone", "wechat", "refresh"})
                  => proc[p].statusRead = StatusActive
            /\ proc[p].statusRead = StatusBlacklisted =>
                  /\ NoTokens(p)
                  /\ proc[p].err \in {MsgUserStatusLogin, MsgUserStatusRefresh}

C6_Witness ==
    \E p \in Procs : /\ RefreshEnded(p) /\ proc[p].validAtParse /\ ~proc[p].blAtCheck
                     /\ proc[p].statusRead = StatusBlacklisted
                     /\ proc[p].err = MsgUserStatusRefresh /\ NoTokens(p)

(* C7.  RefreshToken returns a pair only for a token that, when parsed,    *)
(* was signed with the refresh secret, carried the configured issuer and   *)
(* was before its ExpiresAt, and whose JTI was not in the blacklist when   *)
(* looked up.                                                              *)
C7_OnlyValidRotates ==
    \A p \in Procs : Rotated(p) => (proc[p].validAtParse /\ ~proc[p].blAtCheck)

C7_Witness ==
    \E p \in Procs : /\ RefreshEnded(p) /\ ~proc[p].validAtParse
                     /\ proc[p].err = MsgInvalidRefreshToken /\ NoTokens(p)

(* C8.  Two RefreshToken calls can both return a pair from one refresh     *)
(* token (the witness), and only by the race: a call that returns a pair   *)
(* looked the JTI up before any write of it succeeded, unless the token    *)
(* had expired by the lookup.                                              *)
C8_RotationRace ==
    \A p \in Procs : (Rotated(p) /\ proc[p].sawWritten) => proc[p].expiredAtCheck

C8_Witness ==
    \E p \in Procs, q \in Procs :
        /\ p # q /\ Rotated(p) /\ Rotated(q)
        /\ proc[p].tok = proc[q].tok
        /\ ~proc[p].sawWritten /\ ~proc[q].sawWritten
        /\ proc[p].wroteOk /\ proc[q].wroteOk
        /\ proc[p].rt.jti # proc[q].rt.jti

(* C9.  After AddJtiToBlacklist(jti, ttl) with ttl > 0 has succeeded,      *)
(* IsJtiBlacklisted(jti) is true at every time before the ttl has elapsed  *)
(* and false from then on.                                                 *)
C9_BlacklistedUntilTtl ==
    \A j \in JTIs :
        /\ addedUntil[j] > now => IsJtiBlacklisted(j)
        /\ (addedUntil[j] > 0 /\ addedUntil[j] <= now) => ~IsJtiBlacklisted(j)

C9_Witness ==
    \E j \in JTIs : addedUntil[j] > 0 /\ addedUntil[j] <= now /\ ~IsJtiBlacklisted(j)

(* C10 as stated: after a phone LoginOrRegister call has succeeded with    *)
(* the stored code, and no new code has been stored, a call with the same  *)
(* phone and code fails.                                                   *)
C10_AsStated ==
    \A p \in Procs :
        (proc[p].op = "phone" /\ proc[p].pc = "done" /\ proc[p].resubmit) => proc[p].err # Nil

LogoutEnded(p) == proc[p].op = "logout" /\ proc[p].pc = "done"
ParsedNow(p) == /\ proc'[p] # proc[p]
                /\ proc'[p].op \in {"refresh", "logout"}
                /\ calls' = calls + 1

C12_LogoutInvalidToken ==
    [][\A p \in Procs :
          ( /\ proc'[p] # proc[p]
            /\ proc'[p].op = "logout" /\ proc'[p].pc = "done"
            /\ ~proc'[p].validAtParse )
          => /\ proc'[p].err = Nil
             /\ ~proc'[p].wroteOk
             /\ blacklist' = blacklist]_vars

C12_Witness ==
    \E p \in Procs, q \in Procs :
        /\ p # q /\ LogoutEnded(p) /\ LogoutEnded(q)
        /\ proc[p].expiredAtParse /\ ~proc[p].forged
        /\ proc[q].forged /\ ~proc[q].expiredAtParse
        /\ proc[p].err = Nil /\ proc[q].err = Nil
        /\ ~proc[p].wroteOk /\ ~proc[q].wroteOk

(* C13.  Every key of the blacklist is the JTI of a refresh token that was *)
(* issued and expires at that token's ExpiresAt: the ttl given to the      *)
(* write is ExpiresAt minus the time of the write, positive and at most    *)
(* RefreshTokenTTL.                                                        *)
C13_TtlIsRemainingLife ==
    /\ \A j \in JTIs :
          blacklist[j] > 0 =>
              \E t \in issued : t.jti = j /\ t.key = RefreshSecret /\ blacklist[j] = t.exp
    /\ \A p \in Procs :
          proc[p].wroteOk => (proc[p].ttlWritten > 0 /\ proc[p].ttlWritten <= RefreshTokenTTL)

C13_Witness ==
    \E p \in Procs :
        /\ Rotated(p) /\ proc[p].wroteOk
        /\ proc[p].ttlWritten < RefreshTokenTTL
        /\ blacklist[proc[p].tok.jti] = proc[p].tok.exp

(* C14 as stated: every user that exists (is not deleted) has exactly one  *)
(* profile.                                                                *)
C14_AsStated ==
    \A u \in UserIDs : users[u].exists => Cardinality(ProfileRowsOf(u)) = 1

(* C15 as stated: a login (account Login, phone or WeChat LoginOrRegister) *)
(* that found the identity and then no user row returns the system error   *)
(* and no tokens.                                                          *)
C15_AsStated ==
    \A p \in Procs :
        ( /\ proc[p].pc = "done" /\ proc[p].op \in {"login", "phone", "wechat"}
          /\ proc[p].userMissing )
        => (proc[p].err = ErrSystemError /\ NoTokens(p))

(* C16.  An account Login whose identity lookup answered returns the same  *)
(* message, and no tokens, when there is no identity of the account and    *)
(* when there is one and the password does not match it, at every attempt. *)
C16_SameMessage ==
    \A p \in Procs :
        ( /\ proc[p].op = "login" /\ proc[p].pc = "done" /\ proc[p].lookupOk
          /\ (~proc[p].found \/ ~proc[p].matched) )
        => (proc[p].err = MsgBadCredentials /\ NoTokens(p))

C16_Witness ==
    \E p \in Procs, q \in Procs :
        /\ p # q
        /\ proc[p].op = "login" /\ proc[p].pc = "done" /\ proc[p].lookupOk
        /\ proc[q].op = "login" /\ proc[q].pc = "done" /\ proc[q].lookupOk
        /\ ~proc[p].found
        /\ proc[q].found /\ ~proc[q].matched
        /\ proc[p].err = proc[q].err /\ proc[p].err = MsgBadCredentials

(* C17.  The access token a RefreshToken call returns carries the Role and *)
(* the Status the call read from the user store, and that Status is        *)
(* Active; a call that read the user Blacklisted returns no tokens.        *)
C17_LiveRoleAndStatus ==
    \A p \in Procs :
        /\ Rotated(p) =>
              /\ proc[p].at.role = proc[p].roleRead
              /\ proc[p].at.status = proc[p].statusRead
              /\ proc[p].statusRead = StatusActive
              /\ proc[p].at.uid = proc[p].tok.uid
        /\ (RefreshEnded(p) /\ proc[p].statusRead = StatusBlacklisted) =>
              (proc[p].err = MsgUserStatusRefresh /\ NoTokens(p))

C17_Witness ==
    \E p \in Procs :
        /\ Rotated(p) /\ proc[p].at.role = RoleGuest
        /\ \E t \in issued : /\ t.key = SecretKey /\ t.jti + 1 = proc[p].tok.jti
                             /\ t.uid = proc[p].at.uid /\ t.role = RoleUser

(* C18 as stated: when Logout returns for a valid, unexpired access token, *)
(* the JTI of that token is in the blacklist.                              *)
C18_AsStated ==
    \A p \in Procs : (LogoutEnded(p) /\ proc[p].validAccess) => proc[p].oldBlAtReturn

(* C19 as stated: after Logout has answered success for the access token   *)
(* of a session, a RefreshToken call with the refresh token of that        *)
(* session returns no pair.                                                *)
C19_AsStated ==
    \A p \in Procs : (RefreshEnded(p) /\ proc[p].afterSessionLogout) => proc[p].err # Nil

(* C20.  ParseAccessToken and ParseRefreshToken accept a token exactly     *)
(* when it is signed with their secret, before its ExpiresAt and from the  *)
(* configured issuer, whether or not its JTI is in the blacklist; the step *)
(* of RefreshToken or Logout that parses goes on exactly when the token is *)
(* valid in that sense and leaves the blacklist as it was.                 *)
C20_ParseIgnoresBlacklist ==
    /\ [](\A t \in Presentable :
             /\ ParseAccessToken(t) = (t.key = SecretKey /\ now < t.exp /\ t.iss = Issuer)
             /\ ParseRefreshToken(t) = (t.key = RefreshSecret /\ now < t.exp /\ t.iss = Issuer))
    /\ [][\A p \in Procs :
             ParsedNow(p) =>
                 /\ (proc'[p].pc \in {"rt_check", "lo_revoke"}) = proc'[p].validAtParse
                 /\ blacklist' = blacklist]_vars

C20_Witness ==
    \E p \in Procs : /\ proc[p].op = "refresh" /\ proc[p].pc = "rt_check"
                     /\ proc[p].validAtParse /\ proc[p].blAtParse
                     /\ IsJtiBlacklisted(proc[p].tok.jti)

(* C21.  AddJtiToBlacklist with a ttl of zero or less returns nil and      *)
(* writes nothing: the blacklist, and so IsJtiBlacklisted of every JTI, is *)
(* after the call what it was before.                                      *)
C21_NonPositiveTtlWritesNothing ==
    [][( /\ calls' = calls + 1
         /\ last'.op = "AddJtiToBlacklist"
         /\ last'.ttl <= 0 )
       => /\ last'.err = Nil
          /\ blacklist' = blacklist
          /\ \A j \in JTIs : (blacklist'[j] > now') = IsJtiBlacklisted(j)]_vars

C21_Witness ==
    /\ last.op = "AddJtiToBlacklist" /\ last.ttl < 0 /\ last.err = Nil
    /\ ~IsJtiBlacklisted(last.jti)
    /\ \E j \in JTIs : IsJtiBlacklisted(j)

JwtParsed(p) == proc[p].op = "jwt" /\ proc[p].pc = "done"

C23_DeleteAllOrNothing ==
    last.op = "DeleteUser" =>
        /\ last.err \in {Nil, ErrSystemError}
        /\ last.err = Nil => last.gone
        /\ last.err # Nil => last.same

C23_Witness ==
    /\ last.op = "DeleteUser" /\ last.existed /\ last.err = Nil
    /\ last.gone /\ ~last.same /\ NoRowsOf(last.uid)

(* C24 as stated: BlackUser for a user ID that has no row, with a store    *)
(* that answers, returns the business error of a user that does not exist. *)
C24_AsStated ==
    (last.op = "BlackUser" /\ ~last.existed /\ last.err # ErrSystemError) =>
        last.err = MsgBlackUserNotFound

PhoneEnded(p) == proc[p].op = "phone" /\ proc[p].pc = "done"

(* C25 as stated: no phone LoginOrRegister call succeeds with a stored     *)
(* code that another call has succeeded with, also when the two calls run  *)
(* at the same time and every deletion of the code succeeds.               *)
C25_AsStated ==
    \A p \in Procs :
        (PhoneEnded(p) /\ proc[p].err = Nil /\ proc[p].deleted) =>
            ~(proc[p].second /\ proc[p].firstDeleted)

(* C26 as stated: a registration transaction is refused by the unique      *)
(* index only when an identity with the same IdentityType and the same     *)
(* Identifier exists; the same string under another type does not stand in *)
(* the way.                                                                *)
C26_AsStated ==
    \A p \in Procs : proc[p].tx = "conflict" => proc[p].pairTaken

(* C27 as stated: after an UpdateUser call for an existing user has        *)
(* returned nil, the stored Status is the status of the request, Active    *)
(* (0) included.                                                           *)
C27_AsStated ==
    (last.op = "UpdateUser" /\ last.existed /\ last.err = Nil) =>
        users[last.uid].status = last.status

(* C28, as amended.  A RefreshToken call that starts after the user of its *)
(* refresh token has been deleted, or reads the user store after that,     *)
(* returns an error and no pair; a call that returns a pair read the user  *)
(* before any deletion.                                                    *)
C28_NoRotationAfterDelete ==
    \A p \in Procs :
        /\ (RefreshEnded(p) /\ (proc[p].deletedAtParse \/ proc[p].deletedAtRead)) =>
              /\ proc[p].err \in {MsgInvalidRefreshToken, MsgRefreshTokenRevoked,
                                  MsgUserNotFoundRefresh, ErrSystemError}
              /\ NoTokens(p)
        /\ Rotated(p) => (~proc[p].deletedAtParse /\ ~proc[p].deletedAtRead)

C28_Witness ==
    \E p \in Procs :
        /\ RefreshEnded(p) /\ proc[p].deletedAtParse /\ proc[p].validAtParse
        /\ ~proc[p].blAtCheck /\ proc[p].deletedAtRead
        /\ proc[p].err = MsgUserNotFoundRefresh /\ NoTokens(p)
        /\ last.op = "DeleteUser" /\ last.err = Nil /\ last.existed
        /\ \E t \in issued : t.key = RefreshSecret /\ t.uid = last.uid

(* C28 as stated: no RefreshToken call returns a pair once the user of its *)
(* refresh token has been deleted.                                         *)
C28_AsStated ==
    \A p \in Procs : Rotated(p) => ~proc[p].deletedAtReturn

(* C29 as stated: when a phone LoginOrRegister call that passed the code   *)
(* verification returns an error, the code it was verified with is stored  *)
(* no more, so that a retry with it fails.                                 *)
C29_AsStated ==
    \A p \in Procs :
        (PhoneEnded(p) /\ proc[p].verified /\ proc[p].err # Nil) => ~proc[p].codeLeft

(* C30.  Every step of a RefreshToken call other than the one that returns *)
(* a pair leaves the blacklist as it was, and the step that ends the call  *)
(* with an error returns no token; a call whose blacklist lookup failed    *)
(* ends with the system error and no token.                                *)
C30_FailedRefreshChangesNothing ==
    /\ [](\A p \in Procs :
            /\ (RefreshEnded(p) /\ proc[p].err # Nil) => NoTokens(p)
            /\ (proc[p].op = "refresh" /\ proc[p].lookupFailed) =>
                  (RefreshEnded(p) /\ proc[p].err = ErrSystemError /\ NoTokens(p)))
    /\ [][\A p \in Procs :
            ( /\ proc'[p] # proc[p]
              /\ proc'[p].op = "refresh"
              /\ ~(proc'[p].pc = "done" /\ proc'[p].err = Nil) )
            => /\ blacklist' = blacklist
               /\ issued' = issued
               /\ proc'[p].at = NoToken /\ proc'[p].rt = NoToken]_vars

C30_Witness ==
    \E p \in Procs :
        /\ RefreshEnded(p) /\ proc[p].validAtParse /\ proc[p].lookupFailed
        /\ proc[p].err = ErrSystemError /\ NoTokens(p)
        /\ \A j \in JTIs : ~IsJtiBlacklisted(j)
        /\ Cardinality(issued) = 2

====
